---- MODULE Spec2Model ----
(***************************************************************************)
(* FileServerManager of src-tauri/src/file_server.rs: the manager's three   *)
(* mutex-protected fields (config, shutdown_sender, running), the host      *)
(* threads calling start_server / stop_server / update_config / get_status, *)
(* and the worker threads spawned by start_server with their shutdown       *)
(* tasks.  Every step is one lock-delimited piece of the Rust code.         *)
(***************************************************************************)
EXTENDS Integers, Sequences, FiniteSets, TLC

\* ---------------------------------------------------------------- bounds
\* Number of host threads that may call the manager concurrently.
NumCallers == 2
\* Number of worker threads start_server may spawn in one behaviour.
MaxWorkers == 2
\* Requests that may wait in a listener's queue ahead of the unblock message.
MaxPending == 1
\* Longest URL path a handler iteration is given.
MaxUrlLen == 4

\* ------------------------------------------------------- program constants
\* FileServerManager::new, port: 8080
DefaultPort == 8080
\* update_config: p < 1024
MinPort == 1024
\* update_config: p > 65535
MaxPort == 65535

Callers == 1..NumCallers
Workers == 1..MaxWorkers
NoThread == 0

\* Option<T>
None == <<>>
Some(x) == <<x>>

\* Arguments the host may hand to update_config.  Whether a non-empty path names a
\* directory is the file system's answer at the time start_server asks.
FolderInputs == {"", "/srv/www"}
PortInputs == {MinPort - 1, MinPort}

\* FileServerConfig { folder_path, port }
FileServerConfig(f, p) == [folder_path |-> f, port |-> p]
\* FileServerStatus { running, folder_path, port }
FileServerStatus(r, c) == [running |-> r, folder_path |-> c.folder_path, port |-> c.port]

VARIABLES
    config,           \* Mutex<FileServerConfig>: the value
    running,          \* Mutex<bool>: the value
    shutdown_sender,  \* Mutex<Option<oneshot::Sender>>: None or Some(worker whose channel it is)
    lockRunning,      \* holder of the running mutex across steps (a caller), or NoThread
    lockSender,       \* holder of the shutdown_sender mutex, or NoThread
    lockConfig,       \* holder of the config mutex, or NoThread
    pc,               \* pc[c]: where host thread c is
    cfgLocal,         \* cfgLocal[c]: start_server's local `config` clone (None before it is read)
    runLocal,         \* runLocal[c]: get_status's local `running`
    wpc,              \* wpc[w]: where worker thread w is
    wcfg,             \* wcfg[w]: folder_path and port moved into worker w's closure
    chan,             \* chan[w]: state of worker w's oneshot channel
    tpc,              \* tpc[w]: state of worker w's shutdown task on its tokio runtime
    unblocked,        \* unblocked[w]: an Unblock message is in w's listener queue
    pending,          \* pending[w]: requests in w's listener queue ahead of any Unblock
    lastRet,          \* history: what the step just taken returned to the host (NoRet: it was no return)
    sinceStartOk,     \* history: a start returned success and no stop call was made since
    sinceStopOk,      \* history: a stop returned success and no start call was made since
    everStartOk,      \* history: some start has returned success since construction
    startedOk,        \* history: startedOk[w]: the start call that spawned w returned success
    track,            \* which histories are recorded in this behaviour: "status", "requests"
    seen,             \* history: seen[c]: the manager's states since c's get_status began
    req,              \* the request a handler iteration is given (None: no handler under test)
    resp              \* the response that iteration built (None: not yet)

vars == <<config, running, shutdown_sender, lockRunning, lockSender, lockConfig,
          pc, cfgLocal, runLocal, wpc, wcfg, chan, tpc, unblocked, pending,
          lastRet, sinceStartOk, sinceStopOk, everStartOk, startedOk,
          track, seen, req, resp>>

mgrVars == <<config, running, shutdown_sender>>
lockVars == <<lockRunning, lockSender, lockConfig>>
workerVars == <<wpc, wcfg, chan, tpc, unblocked, pending>>
histVars == <<sinceStartOk, sinceStopOk, everStartOk, startedOk>>

\* pc[c] = "idle": thread c is outside the manager; a call begins with the step that
\* takes the call's first lock.
StartPcs == {"start_cfg", "start_spawn", "start_ret"}
StopPcs == {"stop_sender", "stop_cfg"}

\* A worker thread that has been spawned and has not returned from its closure.
Alive(w) == wpc[w] \notin {"unborn", "failed", "dead"}
\* Worker w owns a tiny_http Server (a bound listener on 127.0.0.1:port).
HoldsListener(w) == wpc[w] \in {"bound", "accept", "exit"}

\* Result<_, String> as seen by the host: the operation and Ok or the kind of error.
Ret(op, res) == [op |-> op, res |-> res]
NoRet == Ret("", "")

\* FileServerManager::new
InitManager ==
    /\ config = FileServerConfig("", DefaultPort)
    /\ running = FALSE
    /\ shutdown_sender = None
    /\ lockRunning = NoThread
    /\ lockSender = NoThread
    /\ lockConfig = NoThread
    /\ pc = [c \in Callers |-> "idle"]
    /\ cfgLocal = [c \in Callers |-> None]
    /\ runLocal = [c \in Callers |-> FALSE]
    /\ wpc = [w \in Workers |-> "unborn"]
    /\ wcfg = [w \in Workers |-> FileServerConfig("", 0)]
    /\ chan = [w \in Workers |-> "none"]
    /\ tpc = [w \in Workers |-> "none"]
    /\ unblocked = [w \in Workers |-> FALSE]
    /\ pending = [w \in Workers |-> 0]
    /\ lastRet = NoRet
    /\ sinceStartOk = FALSE
    /\ sinceStopOk = FALSE
    /\ everStartOk = FALSE
    /\ startedOk = [w \in Workers |-> FALSE]
    /\ seen = [c \in Callers |-> {}]

\* The manager with its host threads and workers; no handler iteration under test.
Init ==
    /\ InitManager
    /\ track = {}
    /\ req = None
    /\ resp = None

\* ------------------------------------------------------------ code conditions
\* start_server: `if *running`
StartRefuses(r) == r
\* Mutant of StopRefuses: the `if !*running` guard is missing.
StopRefuses_Never(r) == FALSE
\* stop_server: `if !*running`
StopRefuses(r) == ~r
\* Mutant of FolderMissing: the empty-path check is missing.
FolderMissing_Never(f) == FALSE
\* start_server: `config.folder_path.is_empty()`
FolderMissing(f) == f = ""
\* start_server: `!path.exists() || !path.is_dir()`, for the answers exists and
\* is_dir the file system gives.
FolderNotDir(exists, is_dir) == ~exists \/ ~is_dir
\* update_config: `p < 1024 || p > 65535`
PortRejected(p) == p < MinPort \/ p > MaxPort

\* The receiver half of w's channel still exists: it lives in the worker's closure
\* and then in its shutdown task, and is gone once the task has finished or the
\* thread has returned.
RxAlive(w) == wpc[w] \notin {"failed", "dead"} /\ tpc[w] # "done"

\* start_server: `let (tx, rx) = oneshot::channel(); *shutdown_sender = Some(tx)`.
\* The new channel of worker w is open; a sender that was still stored is dropped,
\* which closes its channel.
ChanAfterStore(w) ==
    [x \in Workers |->
        IF x = w THEN "open"
        ELSE IF shutdown_sender = Some(x) /\ chan[x] = "open" THEN "closed"
        ELSE chan[x]]

\* Mutant of ChanAfterSend: stop_server takes the sender out but neither sends on
\* it nor lets it drop.
ChanAfterSend_NoSignal == chan

\* stop_server: `if let Some(tx) = sender.take() { let _ = tx.send(()); }`.
\* The stored sender is consumed: its message is delivered if the receiver still
\* exists, and the send error is ignored otherwise.
ChanAfterSend ==
    [x \in Workers |->
        IF shutdown_sender = Some(x) /\ chan[x] = "open"
        THEN (IF RxAlive(x) THEN "sent" ELSE "closed")
        ELSE chan[x]]
\* stop_server: what `sender.take()` leaves in the mutex.
SenderAfterTake == None

\* The worker id the next thread::spawn gets.
FreshWorkers == {w \in Workers : wpc[w] = "unborn"}
FreshWorker == CHOOSE w \in FreshWorkers : \A x \in FreshWorkers : w <= x

\* Mutant of Captured: the closure reads the shared config when it is spawned.
Captured_Shared(c) == config
\* The folder and the port `thread::spawn(move || ..)` moves into the closure:
\* `let folder_path = config.folder_path.clone(); let port = config.port;` where
\* config is the caller's local clone.
Captured(c) == cfgLocal[c][1]
\* The port worker w binds: `let addr = format!("127.0.0.1:{}", port);`
BindPort(w) == wcfg[w].port
\* The folder worker w resolves request paths in: `path.join(&url_path[1..])`.
ServeRoot(w) == wcfg[w].folder_path

\* The history of get_status calls: while c is between its two reads, seen[c]
\* holds every (running, config) the manager has had since the first read, as
\* the status it would be reported as.
SeenAfter ==
    IF "status" \notin track THEN seen
    ELSE [c \in Callers |->
            IF pc'[c] = "st_cfg"
            THEN (IF pc[c] = "st_cfg" THEN seen[c] ELSE {})
                 \cup {FileServerStatus(running', config')}
            ELSE {}]

\* ------------------------------------------------------------------ locks
\* The holder of a mutex (NoThread if it is free); "none" stands for no mutex.
Holder(l) ==
    CASE l = "running" -> lockRunning
      [] l = "shutdown_sender" -> lockSender
      [] l = "config" -> lockConfig
      [] l = "none" -> NoThread
\* `.lock()` on mutex l returns.
LockFree(l) == Holder(l) = NoThread

\* The mutex each step of a call locks while the thread already holds another one
\* (for get_status: after it has released the first).
\* start_server, line 51: `self.config.lock()`
StartCfgLocks == "config"
\* start_server, line 64: `self.shutdown_sender.lock()`
StartSpawnLocks == "shutdown_sender"
\* stop_server, line 174: `self.shutdown_sender.lock()`
StopSenderLocks == "shutdown_sender"
\* stop_server, line 180: `self.config.lock()`
StopCfgLocks == "config"
\* Mutant of CfgWriteLocks: update_config locks running while it holds config.
CfgWriteLocks_Running == "running"
\* update_config, lines 197-208: nothing is locked under the config guard.
CfgWriteLocks == "none"
\* get_status, line 214: `self.config.lock()`
StCfgLocks == "config"

\* The mutex thread c is about to lock at its current position.
NextLock(c) ==
    CASE pc[c] = "start_cfg" -> StartCfgLocks
      [] pc[c] = "start_spawn" -> StartSpawnLocks
      [] pc[c] = "stop_sender" -> StopSenderLocks
      [] pc[c] = "stop_cfg" -> StopCfgLocks
      [] pc[c] = "cfg_write" -> CfgWriteLocks
      [] pc[c] = "st_cfg" -> StCfgLocks
      [] OTHER -> "none"
\* Thread c waits for a mutex that thread d holds.
WaitsFor(c, d) == d # NoThread /\ d # c /\ Holder(NextLock(c)) = d

\* ----------------------------------------------------------- start_server
\* `let mut running = self.running.lock().unwrap(); if *running { return Err }`
\* At most MaxWorkers threads are spawned in a behaviour.
StartLock(c) ==
    /\ pc[c] = "idle"
    /\ FreshWorkers # {}
    /\ lockRunning = NoThread
    /\ sinceStopOk' = FALSE
    /\ IF StartRefuses(running)
       THEN /\ pc' = [pc EXCEPT ![c] = "idle"]
            /\ lastRet' = Ret("start", "AlreadyRunning")
            /\ UNCHANGED lockRunning
       ELSE /\ pc' = [pc EXCEPT ![c] = "start_cfg"]
            /\ lockRunning' = c
            /\ lastRet' = NoRet
    /\ UNCHANGED <<mgrVars, lockSender, lockConfig, cfgLocal, runLocal, workerVars,
                   sinceStartOk, everStartOk, startedOk>>
    /\ UNCHANGED <<req, resp, track>>
    /\ seen' = SeenAfter

\* `let config = self.config.lock().unwrap().clone();` and the two folder checks.
StartCfg(c) ==
    /\ pc[c] = "start_cfg"
    /\ LockFree(StartCfgLocks)
    /\ \E exists \in BOOLEAN, is_dir \in BOOLEAN :
         /\ is_dir => exists
         /\ IF FolderMissing(config.folder_path)
            THEN /\ pc' = [pc EXCEPT ![c] = "idle"]
                 /\ lastRet' = Ret("start", "MissingFolder")
                 /\ lockRunning' = NoThread
                 /\ UNCHANGED cfgLocal
            ELSE IF FolderNotDir(exists, is_dir)
            THEN /\ pc' = [pc EXCEPT ![c] = "idle"]
                 /\ lastRet' = Ret("start", "FolderNotFound")
                 /\ lockRunning' = NoThread
                 /\ UNCHANGED cfgLocal
            ELSE /\ pc' = [pc EXCEPT ![c] = "start_spawn"]
                 /\ cfgLocal' = [cfgLocal EXCEPT ![c] = Some(config)]
                 /\ lastRet' = NoRet
                 /\ UNCHANGED lockRunning
    /\ UNCHANGED <<mgrVars, lockSender, lockConfig, runLocal, workerVars,
                   sinceStartOk, sinceStopOk, everStartOk, startedOk>>
    /\ UNCHANGED <<req, resp, track>>
    /\ seen' = SeenAfter

\* `let (tx, rx) = oneshot::channel(); *self.shutdown_sender.lock().unwrap() = Some(tx);`
\* (the guard on shutdown_sender is a temporary) and `thread::spawn(move || ...)`:
\* folder_path, port, running_arc and rx move into the new thread.  The caller
\* still holds the guard on the running mutex.
StartSpawn(c) ==
    /\ pc[c] = "start_spawn"
    /\ LockFree(StartSpawnLocks)
    /\ shutdown_sender' = Some(FreshWorker)
    /\ chan' = ChanAfterStore(FreshWorker)
    /\ wpc' = [wpc EXCEPT ![FreshWorker] = "bind"]
    /\ wcfg' = [wcfg EXCEPT ![FreshWorker] = Captured(c)]
    /\ pc' = [pc EXCEPT ![c] = "start_ret"]
    /\ UNCHANGED <<config, running, lockVars, cfgLocal, runLocal,
                   tpc, unblocked, pending, histVars>>
    /\ lastRet' = NoRet
    /\ UNCHANGED <<req, resp, track>>
    /\ seen' = SeenAfter

\* `*running = true; Ok(FileServerStatus { running: true, .. })`; the guard on
\* the running mutex is released as the function returns.
StartRet(c) ==
    /\ pc[c] = "start_ret"
    /\ running' = TRUE
    /\ lockRunning' = NoThread
    /\ lastRet' = Ret("start", "Ok")
    /\ cfgLocal' = [cfgLocal EXCEPT ![c] = None]
    /\ pc' = [pc EXCEPT ![c] = "idle"]
    /\ sinceStartOk' = TRUE
    /\ everStartOk' = TRUE
    /\ startedOk' = [startedOk EXCEPT ![shutdown_sender[1]] = TRUE]
    /\ UNCHANGED <<config, shutdown_sender, lockSender, lockConfig, runLocal,
                   workerVars, sinceStopOk>>
    /\ UNCHANGED <<req, resp, track>>
    /\ seen' = SeenAfter

\* ------------------------------------------------------------ stop_server
\* `let mut running = self.running.lock().unwrap(); if !*running { return Err }`
StopLock(c) ==
    /\ pc[c] = "idle"
    /\ lockRunning = NoThread
    /\ sinceStartOk' = FALSE
    /\ IF StopRefuses(running)
       THEN /\ pc' = [pc EXCEPT ![c] = "idle"]
            /\ lastRet' = Ret("stop", "NotRunning")
            /\ UNCHANGED lockRunning
       ELSE /\ pc' = [pc EXCEPT ![c] = "stop_sender"]
            /\ lockRunning' = c
            /\ lastRet' = NoRet
    /\ UNCHANGED <<mgrVars, lockSender, lockConfig, cfgLocal, runLocal, workerVars,
                   sinceStopOk, everStartOk, startedOk>>
    /\ UNCHANGED <<req, resp, track>>
    /\ seen' = SeenAfter

\* `let mut sender = self.shutdown_sender.lock().unwrap();
\*  if let Some(tx) = sender.take() { let _ = tx.send(()); }  *running = false;`
StopSender(c) ==
    /\ pc[c] = "stop_sender"
    /\ LockFree(StopSenderLocks)
    /\ lockSender' = c
    /\ chan' = ChanAfterSend
    /\ shutdown_sender' = SenderAfterTake
    /\ running' = FALSE
    /\ pc' = [pc EXCEPT ![c] = "stop_cfg"]
    /\ UNCHANGED <<config, lockRunning, lockConfig, cfgLocal, runLocal,
                   wpc, wcfg, tpc, unblocked, pending, histVars>>
    /\ lastRet' = NoRet
    /\ UNCHANGED <<req, resp, track>>
    /\ seen' = SeenAfter

\* `let config = self.config.lock().unwrap().clone(); Ok(FileServerStatus { running: false, .. })`;
\* the guards on shutdown_sender and running are released as the function returns.
StopCfg(c) ==
    /\ pc[c] = "stop_cfg"
    /\ LockFree(StopCfgLocks)
    /\ lastRet' = Ret("stop", "Ok")
    /\ lockSender' = NoThread
    /\ lockRunning' = NoThread
    /\ pc' = [pc EXCEPT ![c] = "idle"]
    /\ sinceStopOk' = TRUE
    /\ UNCHANGED <<mgrVars, lockConfig, cfgLocal, runLocal, workerVars,
                   sinceStartOk, everStartOk, startedOk>>
    /\ UNCHANGED <<req, resp, track>>
    /\ seen' = SeenAfter

\* ---------------------------------------------------------- update_config
\* `let mut config = self.config.lock().unwrap();`
CfgLock(c) ==
    /\ pc[c] = "idle"
    /\ lockConfig = NoThread
    /\ lockConfig' = c
    /\ pc' = [pc EXCEPT ![c] = "cfg_write"]
    /\ UNCHANGED <<mgrVars, lockRunning, lockSender, cfgLocal, runLocal,
                   workerVars, histVars>>
    /\ lastRet' = NoRet
    /\ UNCHANGED <<req, resp, track>>
    /\ seen' = SeenAfter

\* The config after `if let Some(path) = folder_path { config.folder_path = path; }`.
WithFolder(cf, folder_path) ==
    IF folder_path = None THEN cf ELSE [cf EXCEPT !.folder_path = folder_path[1]]

\* The body of update_config under the config lock, for arguments
\* folder_path: Option<String> and port: Option<u16>: the config it leaves and what
\* it returns.
UpdateConfig(c, folder_path, port) ==
    LET afterFolder == WithFolder(config, folder_path) IN
    IF port # None /\ PortRejected(port[1])
    THEN [config |-> afterFolder, ret |-> Ret("configure", "InvalidPort")]
    ELSE LET after == IF port = None THEN afterFolder
                      ELSE [afterFolder EXCEPT !.port = port[1]] IN
         [config |-> after, ret |-> Ret("configure", "Ok")]

CfgWrite(c) ==
    /\ pc[c] = "cfg_write"
    /\ LockFree(CfgWriteLocks)
    /\ \E o \in {UpdateConfig(c, folder_path, port) :
                    folder_path \in {None} \cup {Some(f) : f \in FolderInputs},
                    port \in {None} \cup {Some(p) : p \in PortInputs}} :
          /\ config' = o.config
          /\ lastRet' = o.ret
    /\ lockConfig' = NoThread
    /\ pc' = [pc EXCEPT ![c] = "idle"]
    /\ UNCHANGED <<running, shutdown_sender, lockRunning, lockSender, cfgLocal, runLocal,
                   workerVars, sinceStartOk, sinceStopOk, everStartOk, startedOk>>
    /\ UNCHANGED <<req, resp, track>>
    /\ seen' = SeenAfter

\* ------------------------------------------------------------- get_status
\* `let running = *self.running.lock().unwrap();` (the guard is a temporary)
StRun(c) ==
    /\ pc[c] = "idle"
    /\ lockRunning = NoThread
    /\ runLocal' = [runLocal EXCEPT ![c] = running]
    /\ pc' = [pc EXCEPT ![c] = "st_cfg"]
    /\ UNCHANGED <<mgrVars, lockVars, cfgLocal, workerVars, histVars>>
    /\ lastRet' = NoRet
    /\ UNCHANGED <<req, resp, track>>
    /\ seen' = SeenAfter

\* What get_status returns: `FileServerStatus { running, folder_path:
\* config.folder_path, port: config.port }` with the local `running` read earlier
\* and the config cloned now.
StatusReturned(c) == FileServerStatus(runLocal[c], config)

\* `let config = self.config.lock().unwrap().clone(); FileServerStatus { running, .. }`
StCfg(c) ==
    /\ pc[c] = "st_cfg"
    /\ LockFree(StCfgLocks)
    /\ lastRet' = Ret("get_status", "Ok")
    /\ runLocal' = [runLocal EXCEPT ![c] = FALSE]
    /\ pc' = [pc EXCEPT ![c] = "idle"]
    /\ UNCHANGED <<mgrVars, lockVars, cfgLocal, workerVars,
                   sinceStartOk, sinceStopOk, everStartOk, startedOk>>
    /\ UNCHANGED <<req, resp, track>>
    /\ seen' = SeenAfter

\* --------------------------------------------------------- request handler
\* A string is the sequence of its characters.
Root == <<"/">>
\* URL paths a client may request: they start with "/" and have at most MaxUrlLen
\* characters.
UrlChars == {"/", "a", "b"}
RECURSIVE StringsOfLen(_)
StringsOfLen(n) ==
    IF n = 0 THEN {<<>>}
    ELSE {Append(t, ch) : t \in StringsOfLen(n - 1), ch \in UrlChars}
Urls == {u \in UNION {StringsOfLen(n) : n \in 1..MaxUrlLen} : Head(u) = "/"}
\* `file_path.extension().and_then(|ext| ext.to_str())` of the resolved path.
ExtInputs ==
    {None} \cup {Some(e) : e \in {"html", "css", "js", "jpg", "jpeg", "png", "gif",
                                  "svg", "json", "txt", "HTML"}}

\* tiny_http::Response: the status code, the Content-Type header and the body.
Response(status, content_type, body) ==
    [status |-> status, content_type |-> content_type, body |-> body]
\* Response::from_string(..) sets this Content-Type unless with_header replaces it.
PlainText == "text/plain; charset=UTF-8"

\* Mutant of MimeType: the jpeg arm is missing from the match.
MimeType_NoJpeg(ext) ==
    IF ext = Some("html") THEN "text/html"
    ELSE IF ext = Some("css") THEN "text/css"
    ELSE IF ext = Some("js") THEN "application/javascript"
    ELSE IF ext = Some("jpg") THEN "image/jpeg"
    ELSE IF ext = Some("png") THEN "image/png"
    ELSE IF ext = Some("gif") THEN "image/gif"
    ELSE IF ext = Some("svg") THEN "image/svg+xml"
    ELSE IF ext = Some("json") THEN "application/json"
    ELSE "application/octet-stream"
\* `let mime_type = match file_path.extension().and_then(|ext| ext.to_str()) { .. }`
MimeType(ext) ==
    IF ext = Some("html") THEN "text/html"
    ELSE IF ext = Some("css") THEN "text/css"
    ELSE IF ext = Some("js") THEN "application/javascript"
    ELSE IF ext \in {Some("jpg"), Some("jpeg")} THEN "image/jpeg"
    ELSE IF ext = Some("png") THEN "image/png"
    ELSE IF ext = Some("gif") THEN "image/gif"
    ELSE IF ext = Some("svg") THEN "image/svg+xml"
    ELSE IF ext = Some("json") THEN "application/json"
    ELSE "application/octet-stream"

\* Index of the last '/' of s, 0 if there is none.
LastSep(s) ==
    LET seps == {i \in 1..Len(s) : s[i] = "/"} IN
    IF seps = {} THEN 0 ELSE CHOOSE i \in seps : \A j \in seps : j <= i
\* `url_path.rsplitn(2, '/').collect::<Vec<&str>>()`: what follows the last '/'
\* first, then what precedes it; the whole string alone if it has no '/'.
RSplitN2(s) ==
    IF LastSep(s) = 0 THEN <<s>>
    ELSE <<SubSeq(s, LastSep(s) + 1, Len(s)), SubSeq(s, 1, LastSep(s) - 1)>>
\* generate_directory_listing: the target of the ".." link, None if the page has
\* no such link.
\* `if url_path != "/" { let parent = ..; if parent.len() > 1 { let parent_url =
\*  if parent[1].is_empty() { "/" } else { parent[1] }; .. } }`
ParentLink(url_path) ==
    IF url_path # Root
    THEN LET parent == RSplitN2(url_path) IN
         IF Len(parent) > 1
         THEN Some(IF parent[2] = <<>> THEN Root ELSE parent[2])
         ELSE None
    ELSE None
\* generate_directory_listing(dir_path, base_path, url_path) when read_dir
\* succeeds: the page with its heading and its parent link.  The rows of the
\* directory's entries are whatever read_dir yields and are left out.
Listing(url_path) == [heading |-> url_path, parent |-> ParentLink(url_path)]

\* The body of the loop up to `request.respond(response)`: the response built for
\* a request whose resolved path the file system reports as is_file / is_dir, with
\* extension ext, when fs::read (for a file) or read_dir (for a directory)
\* succeeds (io_ok) or fails.
Dispatch(url_path, is_file, is_dir, io_ok, ext) ==
    IF is_file
    THEN IF io_ok
         THEN Response("200", MimeType(ext), "content")
         ELSE Response("500", PlainText, "Error reading file")
    ELSE IF is_dir
    THEN IF io_ok
         THEN Response("200", "text/html; charset=utf-8", Listing(url_path))
         ELSE Response("500", PlainText, "Error listing directory")
    ELSE Response("404", PlainText, "File not found")

\* A request as the loop body sees it.
Request(url_path, is_file, is_dir, io_ok, ext) ==
    [url |-> url_path, is_file |-> is_file, is_dir |-> is_dir, io_ok |-> io_ok, ext |-> ext]

\* One iteration of the loop body in isolation: `request.respond(response)` is
\* called once, with the response Dispatch builds.
Handle ==
    /\ req # None
    /\ resp = None
    /\ resp' = Some(Dispatch(req[1].url, req[1].is_file, req[1].is_dir, req[1].io_ok, req[1].ext))
    /\ UNCHANGED <<mgrVars, lockVars, pc, cfgLocal, runLocal, workerVars, lastRet,
                   histVars, track, seen, req>>

\* Every request the loop body can be given, on a manager that is left alone.
InitHandler ==
    /\ InitManager
    /\ track = {}
    /\ resp = None
    /\ req \in {Some(Request(u, f, d, ok, e)) :
                  u \in Urls, f \in BOOLEAN, d \in {FALSE}, ok \in BOOLEAN, e \in ExtInputs}
               \cup {Some(Request(u, FALSE, TRUE, ok, None)) : u \in Urls, ok \in BOOLEAN}
HandlerSpec == InitHandler /\ [][Handle]_vars

\* ---------------------------------------------------------- worker thread
\* Whether `Server::http("127.0.0.1:<port>")` of worker w can succeed: the operating
\* system refuses a second listener on a port another live Server still holds.
\* (It may fail for any other reason as well: a foreign process, permissions.)
PortFree(w) == \A x \in Workers \ {w} : ~(HoldsListener(x) /\ BindPort(x) = BindPort(w))

\* `let server = match Server::http(&addr) { Ok(server) => server, Err(err) => { .. } }`
WBind(w) ==
    /\ wpc[w] = "bind"
    /\ \/ PortFree(w) /\ wpc' = [wpc EXCEPT ![w] = "bound"]
       \/ wpc' = [wpc EXCEPT ![w] = "rollback"]
    /\ UNCHANGED <<mgrVars, lockVars, pc, cfgLocal, runLocal,
                   wcfg, chan, tpc, unblocked, pending, histVars>>
    /\ lastRet' = NoRet
    /\ UNCHANGED <<req, resp, track>>
    /\ seen' = SeenAfter

\* What is left of worker w's state once its thread has returned: the closure's
\* captures (folder_path, port, rx), the Server with its queue and the runtime with
\* its task are dropped.  Only a sender still stored in the manager keeps the
\* channel "open".
NoCapture == FileServerConfig("", 0)
ChanAfterReturn(w) == IF chan[w] = "open" THEN "open" ELSE "closed"

\* The value the bind-failure branch writes: `*running_arc.lock().unwrap() = false; return;`
RollbackValue == FALSE
WRollback(w) ==
    /\ wpc[w] = "rollback"
    /\ lockRunning = NoThread
    /\ running' = RollbackValue
    /\ wpc' = [wpc EXCEPT ![w] = "failed"]
    /\ wcfg' = [wcfg EXCEPT ![w] = NoCapture]
    /\ chan' = [chan EXCEPT ![w] = ChanAfterReturn(w)]
    /\ UNCHANGED <<config, shutdown_sender, lockVars, pc, cfgLocal, runLocal,
                   tpc, unblocked, pending, histVars>>
    /\ lastRet' = NoRet
    /\ UNCHANGED <<req, resp, track>>
    /\ seen' = SeenAfter

\* The value the worker writes once bound: `*running_arc.lock().unwrap() = true;`
BoundValue == TRUE
\* `*running_arc.lock().unwrap() = true;` and then, with no shared state touched in
\* between, `let rt = Runtime::new().unwrap(); ... rt.spawn(async move {
\* shutdown_future.await; .. })`: the shutdown task starts waiting for rx and
\* the thread enters `for request in server_ref.incoming_requests()`.
WSetRunning(w) ==
    /\ wpc[w] = "bound"
    /\ lockRunning = NoThread
    /\ running' = BoundValue
    /\ tpc' = [tpc EXCEPT ![w] = "waiting"]
    /\ wpc' = [wpc EXCEPT ![w] = "accept"]
    /\ UNCHANGED <<config, shutdown_sender, lockVars, pc, cfgLocal, runLocal,
                   wcfg, chan, unblocked, pending, histVars>>
    /\ lastRet' = NoRet
    /\ UNCHANGED <<req, resp, track>>
    /\ seen' = SeenAfter

\* `rx.await` completes: with Ok(()) once the message was sent, with Err once the
\* sender was dropped.
RxReady(w) == chan[w] \in {"sent", "closed"}

\* The shutdown task: `shutdown_future.await; let _ = server_clone.unblock();`
\* unblock() appends an Unblock message to the listener's queue.
TaskWake(w) ==
    /\ tpc[w] = "waiting"
    /\ Alive(w)
    /\ RxReady(w)
    /\ tpc' = [tpc EXCEPT ![w] = "done"]
    /\ unblocked' = [unblocked EXCEPT ![w] = TRUE]
    /\ UNCHANGED <<mgrVars, lockVars, pc, cfgLocal, runLocal,
                   wpc, wcfg, chan, pending, histVars>>
    /\ lastRet' = NoRet
    /\ UNCHANGED <<req, resp, track>>
    /\ seen' = SeenAfter

\* A client connects: the Server's acceptor puts a request into the queue.  Requests
\* queued behind an Unblock message are never taken out, so they are not counted.
Arrive(w) ==
    /\ wpc[w] = "accept"
    /\ ~unblocked[w]
    /\ pending[w] < MaxPending
    /\ pending' = [pending EXCEPT ![w] = @ + 1]
    /\ UNCHANGED <<mgrVars, lockVars, pc, cfgLocal, runLocal,
                   wpc, wcfg, chan, tpc, unblocked, histVars>>
    /\ lastRet' = NoRet
    /\ UNCHANGED <<req, resp, track>>
    /\ seen' = SeenAfter

\* Mutant of AfterRequest: an I/O failure while handling a request, or a failed
\* write of the response, ends the loop.
AfterRequest_AbortOnError(response, respond_ok) ==
    IF response.status = "500" \/ ~respond_ok THEN "exit" ELSE "accept"
\* Where the worker goes after `if let Err(err) = request.respond(response) {
\* eprintln!(..) }`: to the next iteration, whatever the response was and
\* whether or not it could be written.
AfterRequest(response, respond_ok) == "accept"

\* What one iteration can come to, over the answers the file system gives about the
\* resolved path (is_file, is_dir, and whether the read or the enumeration succeeds)
\* and over a write of the response that succeeds or fails: what is recorded of
\* the response, and where the worker goes next.
ServeOutcomes ==
    {LET response == Dispatch(Root, i[1], i[2], i[3], None) IN
       [ret |-> IF "requests" \notin track THEN NoRet
                ELSE Ret("request", IF i[4] THEN response.status ELSE "write failed"),
        next |-> AfterRequest(response, i[4])] :
     i \in {j \in BOOLEAN \X BOOLEAN \X BOOLEAN \X BOOLEAN : ~(j[1] /\ j[2])}}

\* One iteration of `for request in server_ref.incoming_requests() { .. respond .. }`
\* for the answers the file system gives about the resolved path and for a write
\* of the response that succeeds or fails.  Where histories are recorded, lastRet
\* keeps the status of the response; HandlerSpec goes through the URL paths and
\* extensions.
WServe(w) ==
    /\ wpc[w] = "accept"
    /\ pending[w] > 0
    /\ pending' = [pending EXCEPT ![w] = @ - 1]
    /\ \E o \in ServeOutcomes :
         /\ lastRet' = o.ret
         /\ wpc' = [wpc EXCEPT ![w] = o.next]
    /\ UNCHANGED <<mgrVars, lockVars, pc, cfgLocal, runLocal,
                   wcfg, chan, tpc, unblocked, histVars>>
    /\ UNCHANGED <<req, resp, track>>
    /\ seen' = SeenAfter

\* Mutant of LoopEnds: the accept loop does not end on an Unblock message.
LoopEnds_IgnoresUnblock(w) == FALSE
\* incoming_requests() ends: the next message in the queue is the Unblock.
LoopEnds(w) == pending[w] = 0 /\ unblocked[w]
WLeave(w) ==
    /\ wpc[w] = "accept"
    /\ LoopEnds(w)
    /\ wpc' = [wpc EXCEPT ![w] = "exit"]
    /\ UNCHANGED <<mgrVars, lockVars, pc, cfgLocal, runLocal,
                   wcfg, chan, tpc, unblocked, pending, histVars>>
    /\ lastRet' = NoRet
    /\ UNCHANGED <<req, resp, track>>
    /\ seen' = SeenAfter

\* After the loop: `*running_arc.lock().unwrap() = false;`, and the closure
\* returns: server_ref and rt are dropped and the listener is closed.
WExit(w) ==
    /\ wpc[w] = "exit"
    /\ lockRunning = NoThread
    /\ running' = FALSE
    /\ wpc' = [wpc EXCEPT ![w] = "dead"]
    /\ wcfg' = [wcfg EXCEPT ![w] = NoCapture]
    /\ chan' = [chan EXCEPT ![w] = ChanAfterReturn(w)]
    /\ tpc' = [tpc EXCEPT ![w] = "none"]
    /\ unblocked' = [unblocked EXCEPT ![w] = FALSE]
    /\ pending' = [pending EXCEPT ![w] = 0]
    /\ UNCHANGED <<config, shutdown_sender, lockVars, pc, cfgLocal, runLocal, histVars>>
    /\ lastRet' = NoRet
    /\ UNCHANGED <<req, resp, track>>
    /\ seen' = SeenAfter

\* ------------------------------------------------------------ specification
CallerStep(c) ==
    \/ StartLock(c) \/ StartCfg(c) \/ StartSpawn(c) \/ StartRet(c)
    \/ StopLock(c) \/ StopSender(c) \/ StopCfg(c)
    \/ CfgLock(c) \/ CfgWrite(c)
    \/ StRun(c) \/ StCfg(c)

WorkerStep(w) ==
    \/ WBind(w) \/ WRollback(w) \/ WSetRunning(w)
    \/ WServe(w) \/ WLeave(w) \/ WExit(w)

Next ==
    \/ \E c \in Callers : CallerStep(c)
    \/ \E w \in Workers : WorkerStep(w) \/ TaskWake(w) \/ Arrive(w)

Spec == Init /\ [][Next]_vars

\* The same program with the history of get_status calls recorded.
InitSnap ==
    /\ InitManager
    /\ track = {"status"}
    /\ req = None
    /\ resp = None
SnapSpec == InitSnap /\ [][Next]_vars

\* The same program with the outcome of every request recorded.
InitServe ==
    /\ InitManager
    /\ track = {"requests"}
    /\ req = None
    /\ resp = None
ServeSpec == InitServe /\ [][Next]_vars

\* Threads keep running: a host thread inside a call, a worker thread and a shutdown
\* task each take their next step once it is possible; a thread waiting for a mutex
\* gets it eventually (strong fairness).  The host is never obliged to make a new
\* call and no client is obliged to connect.
CallInProgress(c) ==
    \/ StartCfg(c) \/ StartSpawn(c) \/ StartRet(c)
    \/ StopSender(c) \/ StopCfg(c)
    \/ CfgWrite(c)
    \/ StCfg(c)

Fairness ==
    /\ \A c \in Callers : SF_vars(CallInProgress(c))
    /\ \A w \in Workers : SF_vars(WorkerStep(w)) /\ WF_vars(TaskWake(w))

FairSpec == Spec /\ Fairness

\* ------------------------------------------------------------ step predicates
\* The step just taken is a start call passing the `if *running` check.
StartAccepted == \E c \in Callers : pc[c] = "idle" /\ pc'[c] = "start_cfg"
\* The step just taken is a start call taking the running lock (accepted or refused).
StartCalled == StartAccepted \/ lastRet' = Ret("start", "AlreadyRunning")
\* The step just taken is a stop call passing the `if !*running` check.
StopAccepted == \E c \in Callers : pc[c] = "idle" /\ pc'[c] = "stop_sender"
\* The step just taken is a stop call taking the running lock (accepted or refused).
StopCalled == StopAccepted \/ lastRet' = Ret("stop", "NotRunning")
\* No start call has read the configuration and not yet returned.
NoConfigRead == \A c \in Callers : cfgLocal[c] = None
AliveWorkers == {w \in Workers : Alive(w)}

\* ------------------------------------------------------------------- claims

\* C1: once a start call has returned success, the running flag (what get_status
\* reports) is true until a stop call is made; no worker step clears it in between.
C1_RunningUntilStop == sinceStartOk => running

\* C2: start never returns success for an instance whose bind fails: a worker whose
\* Server::http failed was not spawned by a start call that returned Ok.
C2_BindFailureReported ==
    \A w \in Workers : wpc[w] \in {"rollback", "failed"} => ~startedOk[w]

\* C3: a start call made after a start has returned success and before any stop
\* call finds the running flag true and is refused with AlreadyRunning.
C3_SecondStartRefused ==
    [][sinceStartOk /\ StartCalled
          => running /\ lastRet' = Ret("start", "AlreadyRunning")]_vars

\* C4 (as claimed): at most one worker has been spawned and not yet terminated.
C4_AtMostOneWorker == Cardinality(AliveWorkers) <= 1

\* C4 (amended): at most one live worker has a cancellation handle that was neither
\* fired nor dropped; every other live worker has already been told to terminate.
C4_AtMostOneUnsignalled ==
    Cardinality({w \in AliveWorkers : chan[w] = "open"}) <= 1

\* C4 witness: two workers hold listeners at once, the older one already signalled.
C4_Witness ==
    \E a, b \in Workers :
        /\ a # b
        /\ HoldsListener(a) /\ chan[a] # "open"
        /\ HoldsListener(b) /\ chan[b] = "open"

\* C5: after a stop call has returned success, a further stop call made before the
\* next start call is refused with NotRunning.
C5_SecondStopRefused == [][sinceStopOk => ~StopAccepted]_vars

\* C6: after start then stop, every get_status until the next start call reads
\* running = false, and the next start call is not refused with AlreadyRunning.
C6_StoppedUntilStart ==
    [][/\ \A c \in Callers :
            sinceStopOk /\ pc[c] = "idle" /\ pc'[c] = "st_cfg" => ~runLocal'[c]
       /\ sinceStopOk => lastRet' # Ret("start", "AlreadyRunning")]_vars

\* C7: a configure call that returns InvalidPort leaves the stored configuration
\* (folder_path and port) unchanged.
C7_InvalidPortKeepsConfig ==
    [][lastRet' = Ret("configure", "InvalidPort") => config' = config]_vars

\* C8 (as claimed): a start call that returns while the configured folder path is
\* empty (and was when the call read it) returns MissingFolder, in every manager state.
C8_EmptyFolderAlwaysMissing ==
    [][lastRet'.op = "start" /\ NoConfigRead /\ config.folder_path = ""
          => lastRet' = Ret("start", "MissingFolder")]_vars

\* C8 (amended): with an empty configured folder path start returns MissingFolder
\* whenever the running flag is false; when the flag is true it returns
\* AlreadyRunning, whatever the folder path.
C8_EmptyFolderMissingUnlessRunning ==
    [][/\ lastRet'.op = "start" /\ NoConfigRead /\ config.folder_path = "" /\ ~running
            => lastRet' = Ret("start", "MissingFolder")
       /\ lastRet'.op = "start" /\ NoConfigRead /\ running
            => lastRet' = Ret("start", "AlreadyRunning")]_vars

\* C8 witness: a start was refused with MissingFolder on a manager that had been
\* started successfully before.
C8_Witness == lastRet = Ret("start", "MissingFolder") /\ everStartOk

\* C9: a stop call made when no start call has returned success since construction
\* returns NotRunning and leaves config, running flag and cancellation handle unchanged.
C9_StopBeforeStart ==
    [][~everStartOk /\ StopCalled
          => /\ lastRet' = Ret("stop", "NotRunning")
             /\ UNCHANGED <<config, running, shutdown_sender>>]_vars

\* C9 witness: stop was refused on a configured manager that never started.
C9_Witness ==
    /\ lastRet = Ret("stop", "NotRunning")
    /\ ~everStartOk
    /\ config.folder_path # ""

\* C10: under fair scheduling, after a stop call has returned success every live
\* worker eventually terminates, unless a new start call is made first.
C10_StopTerminatesWorkers ==
    sinceStopOk ~> (AliveWorkers = {} \/ ~sinceStopOk)

\* C10 witness: stop has returned success while a worker has not yet bound its listener.
C10_Witness == sinceStopOk /\ \E w \in Workers : wpc[w] = "bind"

\* C11: update_config does not reach a spawned worker.  What start_server moves into
\* the worker is the config that start call read, and the port a live worker binds
\* and the folder it serves from never change afterwards, whatever becomes of the
\* shared config.
C11_WorkerKeepsStartConfig ==
    [][/\ \A c \in Callers :
            pc[c] = "start_spawn" /\ pc'[c] = "start_ret" =>
                \E w \in Workers :
                    /\ wpc[w] = "unborn" /\ wpc'[w] = "bind"
                    /\ BindPort(w)' = cfgLocal[c][1].port
                    /\ ServeRoot(w)' = cfgLocal[c][1].folder_path
       /\ \A w \in Workers :
            Alive(w) /\ Alive(w)' =>
                BindPort(w)' = BindPort(w) /\ ServeRoot(w)' = ServeRoot(w)]_vars
\* A worker is serving while the shared config differs in both fields from what it
\* was given.
C11_Witness ==
    \E w \in Workers :
        /\ wpc[w] = "accept"
        /\ config.port # BindPort(w)
        /\ config.folder_path # ServeRoot(w)

\* C12: get_status returns a snapshot and changes nothing.  The status a get_status
\* call returns is a (running, config) the manager actually had at some instant
\* between the call's first read and its return, and neither of its steps changes
\* config, running or shutdown_sender.
C12_StatusIsSnapshot ==
    [][\A c \in Callers :
          /\ pc[c] = "st_cfg" /\ pc'[c] = "idle" => StatusReturned(c) \in seen[c]
          /\ (pc[c] = "st_cfg") # (pc'[c] = "st_cfg") => UNCHANGED mgrVars]_vars

\* C13: request dispatch.  Every request handled gets exactly one response, decided
\* by the kind of the resolved path: a file that is read gets 200 with the Content-Type
\* of the extension table (application/octet-stream for any other extension), a file
\* whose read fails gets 500, a directory that is listed gets 200 with
\* text/html; charset=utf-8, a directory whose listing fails gets 500, and anything
\* else gets 404 with a non-empty plain-text body.
C13_DispatchTable ==
    resp # None =>
        /\ Len(resp) = 1
        /\ LET r == req[1]
               out == resp[1]
               table == [e \in ExtInputs |->
                           CASE e = Some("html") -> "text/html"
                             [] e = Some("css") -> "text/css"
                             [] e = Some("js") -> "application/javascript"
                             [] e = Some("jpg") -> "image/jpeg"
                             [] e = Some("jpeg") -> "image/jpeg"
                             [] e = Some("png") -> "image/png"
                             [] e = Some("gif") -> "image/gif"
                             [] e = Some("svg") -> "image/svg+xml"
                             [] e = Some("json") -> "application/json"
                             [] OTHER -> "application/octet-stream"]
           IN  CASE r.is_file /\ r.io_ok ->
                      out.status = "200" /\ out.content_type = table[r.ext]
                 [] r.is_file /\ ~r.io_ok -> out.status = "500"
                 [] ~r.is_file /\ r.is_dir /\ r.io_ok ->
                      out.status = "200" /\ out.content_type = "text/html; charset=utf-8"
                 [] ~r.is_file /\ r.is_dir /\ ~r.io_ok -> out.status = "500"
                 [] OTHER ->
                      /\ out.status = "404"
                      /\ out.content_type = PlainText
                      /\ out.body # ""
\* A file with an extension outside the table has been answered.
C13_Witness ==
    /\ resp # None
    /\ req[1].is_file /\ req[1].io_ok /\ req[1].ext = Some("txt")
    /\ resp[1].content_type = "application/octet-stream"

C15_ParentLinkIsParent ==
    resp # None /\ ~req[1].is_file /\ req[1].is_dir /\ req[1].io_ok =>
        LET RECURSIVE Segments(_)
            Segments(s) ==
                IF s = <<>> THEN <<>>
                ELSE IF Head(s) = "/" THEN Segments(Tail(s))
                ELSE LET seps == {i \in 1..Len(s) : s[i] = "/"}
                         n == IF seps = {} THEN Len(s)
                              ELSE (CHOOSE i \in seps : \A j \in seps : i <= j) - 1
                     IN  <<SubSeq(s, 1, n)>> \o Segments(SubSeq(s, n + 1, Len(s)))
            url == req[1].url
            link == resp[1].body.parent
            of_url == Segments(url)
        IN  IF url = Root THEN link = None
            ELSE /\ link # None
                 /\ Segments(link[1]) = SubSeq(of_url, 1, Len(of_url) - 1)

\* C16 (safety part): the rollback after a failed bind clears the flag of the
\* instance whose bind failed only; it is never applied while a different worker,
\* spawned by a later start, is alive and the flag is true.
C16_RollbackOwnInstanceOnly ==
    [][\A w \in Workers :
          wpc[w] = "rollback" /\ wpc'[w] = "failed" =>
              ~(running /\ \E x \in Workers : x > w /\ Alive(x))]_vars

\* C17: a shutdown sender is stored only for an active instance.  While no start or
\* stop call is in progress, a stored sender implies that the running flag is true and
\* that the worker the sender belongs to has not returned.
C17_SenderOnlyWhileActive ==
    (\A c \in Callers : pc[c] \notin StartPcs \cup StopPcs) /\ shutdown_sender # None =>
        running /\ Alive(shutdown_sender[1])

\* C18: start_server holds none of the manager's mutexes at the step that spawns the
\* worker thread.
C18_NoLockHeldAtSpawn ==
    [][\A c \in Callers :
          pc[c] = "start_spawn" /\ pc'[c] = "start_ret" =>
              lockRunning # c /\ lockSender # c /\ lockConfig # c]_vars

\* C19: no orphan listener.  Whenever a worker is in its accept loop and nothing has
\* been sent on its channel nor its sender dropped, the running flag is true.
C19_NoOrphanListener ==
    \A w \in Workers : wpc[w] = "accept" /\ chan[w] = "open" => running

\* C20: deadlock freedom.  The threads that wait for a mutex while holding another
\* never wait for one another in a cycle, and every call that has begun returns.
C20_NoLockCycleAndCallsReturn ==
    /\ [](\A c \in Callers :
            LET RECURSIVE Blockers(_, _)
                Blockers(S, n) ==
                    IF n = 0 THEN S
                    ELSE Blockers(S \cup {d \in Callers : \E x \in S : WaitsFor(x, d)}, n - 1)
            IN  c \notin Blockers({d \in Callers : WaitsFor(c, d)}, NumCallers))
    /\ \A c \in Callers : (pc[c] # "idle") ~> (pc[c] = "idle")
\* A thread inside stop_server, holding running and shutdown_sender, waits for the
\* config mutex that another thread holds inside update_config.
C20_Witness ==
    \E c \in Callers, d \in Callers : pc[c] = "stop_cfg" /\ pc[d] = "cfg_write" /\ WaitsFor(c, d)
====
